---- MODULE Spec2Model ----
(***************************************************************************)
(* FM synthesizer (src/main.rs): the oscillator, the ADSR envelope, the    *)
(* control loop of main and the audio callback of build_and_run_stream.    *)
(*                                                                         *)
(* Numbers.  The program computes in f32.  The model computes in fixed     *)
(* point: the integer n stands for the real n / Unit, products and         *)
(* quotients are rescaled and rounded down, and NaN is a value of its own  *)
(* that the operators treat as f32 does (comparisons with it are false,    *)
(* max drops it, clamp and the arithmetic keep it).                        *)
(*                                                                         *)
(* Two specifications.  SpecAdsr drives one Adsr value through arbitrary   *)
(* calls of note_on, note_off and next(dt).  Spec is the running program:  *)
(* the control thread reading lines, the audio thread serving callbacks,   *)
(* and the mutex around the shared SynthState.                             *)
(***************************************************************************)
EXTENDS Integers, Sequences, FiniteSets

VARIABLES
    \* ---- SpecAdsr: one envelope under test
    env,        \* the Adsr value
    op,         \* the last method called on it: "new", "note_on", "note_off", "next"
    prev,       \* env as it was before that call
    ret,        \* the value the last next(dt) returned
    lastDt,     \* the dt of the last next(dt)
    relT,       \* time stepped since the last note_off on a non-Idle envelope (-1: none pending)
    relBig,     \* one next(dt) with dt >= release was among those steps
    \* ---- Spec: the program
    shared,     \* Arc<Mutex<SynthState>>: the protected value
    lock,       \* who holds the mutex: "free", "ui", "audio"
    uiPc,       \* control loop: "read", "lock", "apply", "done"
    line,       \* the last line read from stdin
    ncmds,      \* lines read so far
    channels,   \* config.channels
    sample_rate,\* config.sample_rate
    auPc,       \* audio thread: "idle", "loop", "snap", "voice", "envlock", "env", "write"
    data,       \* the callback's output buffer: per slot the value and the number of writes
    idx,        \* callback local idx
    ch,         \* the channel loop's counter
    snapshot,   \* callback local snapshot
    carrier,    \* captured oscillator
    modulator,  \* captured oscillator
    sample,     \* callback local sample
    env_level,  \* callback local env_level
    out,        \* callback local out
    nframes,    \* frames rendered so far, over all callbacks
    \* ---- Spec: observers
    snapBegin,  \* shared as it was when the current frame's snapshot lock was taken
    envBegin,   \* the shared envelope as it was when the current frame's envelope lock was taken
    envUsed,    \* the shared envelope the current frame stepped to get env_level
    voiceSteps, \* voice computations in the current callback
    scen,       \* progress of the scenario n 440, on, frames, off, frames
    scenT,      \* time rendered in the scenario's current phase
    pure,       \* every voice step so far was made with mod_index = 0
    ref,        \* an unmodulated SineOsc stepped beside the carrier while pure holds
    refSample,  \* the value its last next() returned
    carrier0,   \* the carrier as it was stored before the last voice step
    modSample,  \* the modulator sample of the last voice step
    locks       \* times the current frame has locked the shared state

evars == <<env, op, prev, ret, lastDt, relT, relBig>>
pvars == <<shared, lock, uiPc, line, ncmds, channels, sample_rate, auPc, data, idx, ch,
           snapshot, carrier, modulator, sample, env_level, out, nframes,
           snapBegin, envBegin, envUsed, voiceSteps, scen, scenT,
           pure, ref, refSample, carrier0, modSample, locks>>
vars == <<evars, pvars>>

----------------------------------------------------------------------------
(* Fixed-point f32 *)

\* Resolution of the fixed-point numbers: Unit stands for 1.0.
Unit == 100

\* The literal n/d.
F(n, d) == (n * Unit) \div d

NaN == 0 - 1000000000

\* The literal 1e-6, which is below the resolution: the least positive number.
Eps == IF Unit \div 1000000 > 1 THEN Unit \div 1000000 ELSE 1

\* std::f32::consts::TAU
TAU == F(6283, 1000)

IsNaN(x) == x = NaN

FAdd(a, b) == IF IsNaN(a) \/ IsNaN(b) THEN NaN ELSE a + b
FSub(a, b) == IF IsNaN(a) \/ IsNaN(b) THEN NaN ELSE a - b
FMul(a, b) == IF IsNaN(a) \/ IsNaN(b) THEN NaN ELSE (a * b) \div Unit
FDiv(a, b) == IF IsNaN(a) \/ IsNaN(b) \/ b = 0 THEN NaN ELSE (a * Unit) \div b

\* f32 comparisons: false when either side is NaN.
FGe(a, b) == ~IsNaN(a) /\ ~IsNaN(b) /\ a >= b
FLe(a, b) == ~IsNaN(a) /\ ~IsNaN(b) /\ a <= b
FLt(a, b) == ~IsNaN(a) /\ ~IsNaN(b) /\ a < b
FGt(a, b) == ~IsNaN(a) /\ ~IsNaN(b) /\ a > b

Min(a, b) == IF a <= b THEN a ELSE b

\* f32::max: the other operand when one is NaN.
FMax(a, b) == IF IsNaN(a) THEN b ELSE IF IsNaN(b) THEN a ELSE IF a >= b THEN a ELSE b

\* f32::clamp: x < min gives min, x > max gives max, NaN stays NaN.
FClamp(x, lo, hi) == IF FLt(x, lo) THEN lo ELSE IF FGt(x, hi) THEN hi ELSE x

----------------------------------------------------------------------------
(* Adsr *)

AdsrStates == {"Idle", "Attack", "Decay", "Sustain", "Release"}

\* Adsr::new
AdsrNew(attack, decay, sustain, release) ==
    [attack  |-> FMax(attack, Eps),
     decay   |-> FMax(decay, Eps),
     sustain |-> sustain,
     release |-> FMax(release, Eps),
     state   |-> "Idle",
     level   |-> 0]

\* Mutant of NoteOn: the retrigger restarts the level from 0.
NoteOn_ResetLevel(e) == [e EXCEPT !.state = "Attack", !.level = 0]

\* Adsr::note_on
NoteOn(e) == [e EXCEPT !.state = "Attack"]

\* Mutant of NoteOff: the Idle guard is missing.
NoteOff_NoGuard(e) == [e EXCEPT !.state = "Release"]

\* Adsr::note_off
NoteOff(e) == IF e.state # "Idle" THEN [e EXCEPT !.state = "Release"] ELSE e

\* Mutant of NextAttack: the level is not clamped to 1 on leaving Attack.
NextAttack_NoClamp(e, dt) ==
    LET l == FAdd(e.level, FDiv(dt, e.attack))
    IN  IF FGe(l, Unit) THEN [e EXCEPT !.level = l, !.state = "Decay"]
        ELSE [e EXCEPT !.level = l]

\* Adsr::next, the Attack arm
NextAttack(e, dt) ==
    LET l == FAdd(e.level, FDiv(dt, e.attack))
    IN  IF FGe(l, Unit) THEN [e EXCEPT !.level = Unit, !.state = "Decay"]
        ELSE [e EXCEPT !.level = l]

\* Mutant of NextDecay: the arm leaves Decay for Release.
NextDecay_ToRelease(e, dt) ==
    LET l == FSub(e.level, FMul(FDiv(dt, e.decay), FSub(Unit, e.sustain)))
    IN  IF FLe(l, e.sustain) THEN [e EXCEPT !.level = e.sustain, !.state = "Release"]
        ELSE [e EXCEPT !.level = l]

\* Adsr::next, the Decay arm
NextDecay(e, dt) ==
    LET l == FSub(e.level, FMul(FDiv(dt, e.decay), FSub(Unit, e.sustain)))
    IN  IF FLe(l, e.sustain) THEN [e EXCEPT !.level = e.sustain, !.state = "Sustain"]
        ELSE [e EXCEPT !.level = l]

\* Mutant of NextRelease: the level is clamped at 0 but the state stays Release.
NextRelease_NoIdle(e, dt) ==
    LET l == FSub(e.level, FMul(FDiv(dt, e.release), FMax(e.level, Eps)))
    IN  IF FLe(l, 0) THEN [e EXCEPT !.level = 0]
        ELSE [e EXCEPT !.level = l]

\* Adsr::next, the Release arm
NextRelease(e, dt) ==
    LET l == FSub(e.level, FMul(FDiv(dt, e.release), FMax(e.level, Eps)))
    IN  IF FLe(l, 0) THEN [e EXCEPT !.level = 0, !.state = "Idle"]
        ELSE [e EXCEPT !.level = l]

\* Adsr::next: the envelope after the call; the call returns its level.
AdsrNext(e, dt) ==
    CASE e.state = "Idle"    -> [e EXCEPT !.level = 0]
      [] e.state = "Attack"  -> NextAttack(e, dt)
      [] e.state = "Decay"   -> NextDecay(e, dt)
      [] e.state = "Sustain" -> [e EXCEPT !.level = e.sustain]
      [] e.state = "Release" -> NextRelease(e, dt)

----------------------------------------------------------------------------
(* SineOsc *)

\* f32::sin: the argument reduced to [0, TAU), then Bhaskara's rational
\* approximation of the half wave (exact at 0, TAU/4, TAU/2, 3 TAU/4).
HalfWave(y) ==
    LET PI == TAU \div 2
        q  == y * (PI - y)
    IN  (Unit * 16 * q) \div (5 * PI * PI - 4 * q)

Sin(x) ==
    LET PI == TAU \div 2
        r  == x % TAU
    IN  IF r <= PI THEN HalfWave(r) ELSE 0 - HalfWave(r - PI)

\* SineOsc::new
SineOscNew(freq, sr) == [phase |-> 0, phase_inc |-> FDiv(FMul(freq, TAU), sr)]

\* SineOsc::set_freq
SetFreq(o, freq, sr) == [o EXCEPT !.phase_inc = FDiv(FMul(freq, TAU), sr)]

\* SineOsc::next: the oscillator after the call; the call returns Sin(o.phase).
OscNext(o) ==
    LET p == FAdd(o.phase, o.phase_inc)
    IN  [o EXCEPT !.phase = IF FGe(p, TAU) THEN FSub(p, TAU) ELSE p]

----------------------------------------------------------------------------
(* main: the shared state and the control loop *)

\* Lines read from stdin so far are at most MaxCmds; frames rendered at most MaxFrames.
MaxCmds == 3
MaxFrames == 2

\* The device's configuration: sample rates (Hz) and channel counts tried.
SampleRates == {3}
ChannelCounts == {1, 2}
\* Frames the host asks for in one callback.
FrameCounts == {1, 2}

\* The initial SynthState of main.
InitialState ==
    [carrier_freq |-> F(220, 1),
     mod_ratio    |-> F(2, 1),
     mod_index    |-> F(100, 1),
     amp          |-> F(2, 10),
     adsr         |-> AdsrNew(F(1, 100), F(1, 10), F(8, 10), F(3, 10)),
     gate         |-> FALSE]

\* Lines of stdin after trim().split_whitespace(): the sequence of tokens.
Lines ==
    { <<>>, <<"zz">>, <<"q">>,
      <<"n", "440">>, <<"n", "0">>, <<"n", "abc">>, <<"n">>,
      <<"r", "-1">>, <<"i", "-1">>,
      <<"a", "2">>, <<"a", "NaN">>,
      <<"on">>, <<"off">> }

\* str::parse::<f32> on the tokens that occur: Ok(v) or Err.
ParseF32(tok) ==
    CASE tok = "440" -> [ok |-> TRUE, v |-> F(440, 1)]
      [] tok = "0"   -> [ok |-> TRUE, v |-> 0]
      [] tok = "-1"  -> [ok |-> TRUE, v |-> 0 - Unit]
      [] tok = "2"   -> [ok |-> TRUE, v |-> F(2, 1)]
      [] tok = "NaN" -> [ok |-> TRUE, v |-> NaN]
      [] OTHER       -> [ok |-> FALSE, v |-> 0]

NumericCmds == {"n", "r", "i", "a"}

\* Mutant of Dispatch: a numeric argument that does not parse is taken as the default 0.0.
Dispatch_DefaultOnParseError(l) ==
    IF Len(l) = 0 THEN "read"
    ELSE CASE l[1] \in {"q", "quit"} -> "done"
           [] l[1] \in NumericCmds -> IF Len(l) >= 2 THEN "lock" ELSE "read"
           [] l[1] \in {"on", "off"} -> "lock"
           [] OTHER -> "read"

\* The match on the command token: where the loop goes after reading line l. A
\* command that writes goes on to lock the shared state; everything else is
\* done with the line ("read"), and q or quit leaves the loop ("done").
Dispatch(l) ==
    IF Len(l) = 0 THEN "read"
    ELSE CASE l[1] \in {"q", "quit"} -> "done"
           [] l[1] \in NumericCmds ->
                IF Len(l) >= 2 /\ ParseF32(l[2]).ok THEN "lock" ELSE "read"
           [] l[1] \in {"on", "off"} -> "lock"
           [] OTHER -> "read"

\* Mutant of Apply: the off arm leaves the gate as it was.
Apply_OffKeepsGate(s, l) ==
    CASE l[1] = "n"   -> [s EXCEPT !.carrier_freq = FMax(ParseF32(l[2]).v, Unit)]
      [] l[1] = "r"   -> [s EXCEPT !.mod_ratio = FMax(ParseF32(l[2]).v, 0)]
      [] l[1] = "i"   -> [s EXCEPT !.mod_index = FMax(ParseF32(l[2]).v, 0)]
      [] l[1] = "a"   -> [s EXCEPT !.amp = FClamp(ParseF32(l[2]).v, 0, Unit)]
      [] l[1] = "on"  -> [s EXCEPT !.gate = TRUE, !.adsr = NoteOn(@)]
      [] l[1] = "off" -> [s EXCEPT !.adsr = NoteOff(@)]

\* The writes of a command's arm, under the lock.
Apply(s, l) ==
    CASE l[1] = "n"   -> [s EXCEPT !.carrier_freq = FMax(ParseF32(l[2]).v, Unit)]
      [] l[1] = "r"   -> [s EXCEPT !.mod_ratio = FMax(ParseF32(l[2]).v, 0)]
      [] l[1] = "i"   -> [s EXCEPT !.mod_index = FMax(ParseF32(l[2]).v, 0)]
      [] l[1] = "a"   -> [s EXCEPT !.amp = FClamp(ParseF32(l[2]).v, 0, Unit)]
      [] l[1] = "on"  -> [s EXCEPT !.gate = TRUE, !.adsr = NoteOn(@)]
      [] l[1] = "off" -> [s EXCEPT !.gate = FALSE, !.adsr = NoteOff(@)]

\* let dt = 1.0 / sample_rate
Dt == FDiv(Unit, sample_rate)

\* The envelope under test, at rest while the program runs.
ERest ==
    /\ env = AdsrNew(0, 0, 0, 0) /\ op = "new" /\ prev = env
    /\ ret = 0 /\ lastDt = 0 /\ relT = -1 /\ relBig = FALSE

\* main up to stream.play(), and build_and_run_stream up to the callback.
PInit ==
    /\ shared = InitialState
    /\ lock = "free"
    /\ uiPc = "read" /\ line = <<>> /\ ncmds = 0
    /\ channels \in ChannelCounts
    /\ \E hz \in SampleRates : sample_rate = F(hz, 1)
    /\ auPc = "idle" /\ data = <<>> /\ idx = 0 /\ ch = 0
    /\ snapshot = InitialState
    /\ carrier = SineOscNew(F(220, 1), sample_rate)
    /\ modulator = SineOscNew(F(440, 1), sample_rate)
    /\ sample = 0 /\ env_level = 0 /\ out = 0 /\ nframes = 0
    /\ snapBegin = InitialState /\ envBegin = InitialState.adsr
    /\ envUsed = InitialState.adsr /\ voiceSteps = 0
    /\ scen = 0 /\ scenT = 0
    /\ pure = TRUE /\ ref = carrier /\ refSample = 0 /\ carrier0 = carrier /\ modSample = 0
    /\ locks = 0

obsvars == <<pure, ref, refSample, carrier0, modSample>>
auvars == <<auPc, data, idx, ch, snapshot, carrier, modulator, sample, env_level, out,
            nframes, snapBegin, envBegin, envUsed, voiceSteps, obsvars, locks>>
uivars == <<uiPc, line, ncmds>>

\* for line in stdin.lock().lines(): one line read, parsed and dispatched.
UiRead ==
    /\ uiPc = "read"
    /\ ncmds < MaxCmds
    /\ \E l \in Lines :
          /\ line' = l
          /\ uiPc' = Dispatch(l)
    /\ ncmds' = ncmds + 1
    /\ UNCHANGED <<shared, lock, channels, sample_rate, auvars, scen, scenT, evars>>

\* Mutant of UiLock: the control thread does not wait for the mutex.
UiLock_NoWait ==
    /\ uiPc = "lock"
    /\ lock' = "ui"
    /\ uiPc' = "apply"
    /\ UNCHANGED <<shared, line, ncmds, channels, sample_rate, auvars, scen, scenT, evars>>

\* shared_ui.lock().unwrap()
UiLock ==
    /\ uiPc = "lock"
    /\ lock = "free"
    /\ lock' = "ui"
    /\ uiPc' = "apply"
    /\ UNCHANGED <<shared, line, ncmds, channels, sample_rate, auvars, scen, scenT, evars>>

\* The scenario observer: n 440, then on, then (after frames covering the
\* attack time) off; any other write voids it.
ScenAfter(l) ==
    CASE scen = 0 /\ l = <<"n", "440">> -> 1
      [] scen = 1 /\ l = <<"on">> -> 2
      [] scen = 2 /\ l = <<"off">> /\ scenT >= shared.adsr.attack -> 3
      [] OTHER -> 0 - 1

\* The arm's writes, then the guard is dropped at the arm's end.
UiApply ==
    /\ uiPc = "apply"
    /\ shared' = Apply(shared, line)
    /\ lock' = "free"
    /\ uiPc' = "read"
    /\ scen' = ScenAfter(line)
    /\ scenT' = 0
    /\ UNCHANGED <<line, ncmds, channels, sample_rate, auvars, evars>>

----------------------------------------------------------------------------
(* build_and_run_stream: the audio callback (T = f32: samples are written as computed) *)

\* What a slot of the host's buffer holds before the callback writes it.
Stale == 0 - 2 * Unit

\* The host calls the callback with a buffer of frames * channels slots. The
\* stream is dropped when main returns, so no callback starts after the loop ends.
AuCallback ==
    /\ auPc = "idle"
    /\ uiPc # "done"
    /\ \E frames \in FrameCounts :
          /\ nframes + frames <= MaxFrames
          /\ data' = [i \in 1 .. frames * channels |-> [v |-> Stale, n |-> 0]]
    /\ idx' = 0
    /\ voiceSteps' = 0
    /\ auPc' = "loop"
    /\ UNCHANGED <<shared, lock, uivars, channels, sample_rate, ch, snapshot, carrier,
                   modulator, sample, env_level, out, nframes, snapBegin, envBegin,
                   envUsed, scen, scenT, obsvars, locks,
                   evars>>

\* while idx < data.len() fails: the callback returns.
AuReturn ==
    /\ auPc = "loop"
    /\ ~(idx < Len(data))
    /\ auPc' = "idle"
    /\ UNCHANGED <<shared, lock, uivars, channels, sample_rate, data, idx, ch, snapshot,
                   carrier, modulator, sample, env_level, out, nframes, snapBegin,
                   envBegin, envUsed, voiceSteps, scen, scenT, obsvars, locks,
                   evars>>

\* while idx < data.len() holds; let s = shared.lock().unwrap()
AuSnapLock ==
    /\ auPc = "loop"
    /\ idx < Len(data)
    /\ lock = "free"
    /\ lock' = "audio"
    /\ locks' = 1
    /\ snapBegin' = shared
    /\ auPc' = "snap"
    /\ UNCHANGED <<shared, uivars, channels, sample_rate, data, idx, ch, snapshot, carrier,
                   modulator, sample, env_level, out, nframes, envBegin, envUsed,
                   voiceSteps, scen, scenT, obsvars,
                   evars>>

\* Mutant of AuSnapshot: the guard s outlives the snapshot block.
AuSnapshot_KeepLock ==
    /\ auPc = "snap"
    /\ snapshot' = shared
    /\ lock' = lock
    /\ auPc' = "voice"
    /\ UNCHANGED <<shared, uivars, channels, sample_rate, data, idx, ch, carrier,
                   modulator, sample, env_level, out, nframes, snapBegin, envBegin,
                   envUsed, voiceSteps, scen, scenT, obsvars, locks,
                   evars>>

\* s.clone(), and the guard s is dropped at the end of the block.
AuSnapshot ==
    /\ auPc = "snap"
    /\ snapshot' = shared
    /\ lock' = "free"
    /\ auPc' = "voice"
    /\ UNCHANGED <<shared, uivars, channels, sample_rate, data, idx, ch, carrier,
                   modulator, sample, env_level, out, nframes, snapBegin, envBegin,
                   envUsed, voiceSteps, scen, scenT, obsvars, locks,
                   evars>>

\* Mutant of CarrierStep: the deviation is scaled by the initial index 100, not the snapshot's.
CarrierStep_FixedIndex(c, snap, mod_sample, sr) ==
    LET c1 == SetFreq(c, snap.carrier_freq, sr)
        freq_deviation == FMul(F(100, 1), mod_sample)
        inst_phase_inc == FDiv(FMul(FAdd(snap.carrier_freq, freq_deviation), TAU), sr)
        prev_inc == c1.phase_inc
        c2 == OscNext([c1 EXCEPT !.phase_inc = inst_phase_inc])
    IN  [c2 EXCEPT !.phase_inc = prev_inc]

\* Mutant of CarrierStep: the nominal increment is not restored after next().
CarrierStep_NoRestore(c, snap, mod_sample, sr) ==
    LET c1 == SetFreq(c, snap.carrier_freq, sr)
        freq_deviation == FMul(snap.mod_index, mod_sample)
        inst_phase_inc == FDiv(FMul(FAdd(snap.carrier_freq, freq_deviation), TAU), sr)
    IN  OscNext([c1 EXCEPT !.phase_inc = inst_phase_inc])

\* The carrier after one frame: set_freq, the increment overridden by the
\* instantaneous one for this next(), then the nominal increment restored.
CarrierStep(c, snap, mod_sample, sr) ==
    LET c1 == SetFreq(c, snap.carrier_freq, sr)
        freq_deviation == FMul(snap.mod_index, mod_sample)
        inst_phase_inc == FDiv(FMul(FAdd(snap.carrier_freq, freq_deviation), TAU), sr)
        prev_inc == c1.phase_inc
        c2 == OscNext([c1 EXCEPT !.phase_inc = inst_phase_inc])
    IN  [c2 EXCEPT !.phase_inc = prev_inc]

\* set_freq on both oscillators, modulator.next(), carrier.next().
AuVoice ==
    /\ auPc = "voice"
    /\ LET m1 == SetFreq(modulator, FMul(snapshot.carrier_freq, snapshot.mod_ratio),
                         sample_rate)
       IN  /\ modSample' = Sin(m1.phase)
           /\ modulator' = OscNext(m1)
           /\ sample' = Sin(carrier.phase)
           /\ carrier' = CarrierStep(carrier, snapshot, modSample', sample_rate)
    /\ voiceSteps' = voiceSteps + 1
    /\ pure' = (pure /\ snapshot.mod_index = 0)
    /\ ref' = IF pure' THEN OscNext(SetFreq(ref, snapshot.carrier_freq, sample_rate))
               ELSE carrier'
    /\ refSample' = IF pure' THEN Sin(ref.phase) ELSE sample'
    /\ carrier0' = carrier
    /\ auPc' = "envlock"
    /\ UNCHANGED <<shared, lock, uivars, channels, sample_rate, data, idx, ch, snapshot,
                   env_level, out, nframes, snapBegin, envBegin, envUsed, scen, scenT,
                   locks,
                   evars>>

\* let mut s2 = shared.lock().unwrap()
AuEnvLock ==
    /\ auPc = "envlock"
    /\ lock = "free"
    /\ lock' = "audio"
    /\ locks' = locks + 1
    /\ envBegin' = shared.adsr
    /\ auPc' = "env"
    /\ UNCHANGED <<shared, uivars, channels, sample_rate, data, idx, ch, snapshot, carrier,
                   modulator, sample, env_level, out, nframes, snapBegin, envUsed,
                   voiceSteps, scen, scenT, obsvars,
                   evars>>

\* Mutant of EnvelopeBlock: adsr_local is taken from the frame's snapshot.
EnvelopeBlock_FromSnapshot(s2, dt) ==
    LET adsr_local == snapshot.adsr
        ad == AdsrNext(adsr_local, dt)
    IN  [level |-> ad.level, written |-> adsr_local]

\* The envelope block: adsr_local is a copy of s2.adsr, ad is a copy of
\* adsr_local, ad is stepped, and adsr_local is what is written back.
EnvelopeBlock(s2, dt) ==
    LET adsr_local == s2.adsr
        ad == AdsrNext(adsr_local, dt)
    IN  [level |-> ad.level, written |-> adsr_local]

\* Mutant of AuEnvelope: the whole snapshot is written back with the envelope.
AuEnvelope_WritesSnapshot ==
    /\ auPc = "env"
    /\ LET b == EnvelopeBlock(shared, Dt)
       IN  /\ shared' = [snapshot EXCEPT !.adsr = b.written]
           /\ env_level' = b.level
           /\ out' = FMul(FMul(sample, b.level), snapshot.amp)
    /\ envUsed' = shared.adsr
    /\ ch' = 0
    /\ scenT' = IF scen = 2 THEN Min(scenT + Dt, shared.adsr.attack)
                ELSE IF scen = 3 THEN Min(scenT + Dt, shared.adsr.release)
                ELSE scenT
    /\ auPc' = "write"
    /\ UNCHANGED <<lock, uivars, channels, sample_rate, data, idx, snapshot, carrier,
                   modulator, sample, nframes, snapBegin, envBegin, voiceSteps, scen,
                   obsvars, locks,
                   evars>>

\* The envelope block and let out = sample * env_level * snapshot.amp.
AuEnvelope ==
    /\ auPc = "env"
    /\ LET b == EnvelopeBlock(shared, Dt)
       IN  /\ shared' = [shared EXCEPT !.adsr = b.written]
           /\ env_level' = b.level
           /\ out' = FMul(FMul(sample, b.level), snapshot.amp)
    /\ envUsed' = shared.adsr
    /\ ch' = 0
    /\ scenT' = IF scen = 2 THEN Min(scenT + Dt, shared.adsr.attack)
                ELSE IF scen = 3 THEN Min(scenT + Dt, shared.adsr.release)
                ELSE scenT
    /\ auPc' = "write"
    /\ UNCHANGED <<lock, uivars, channels, sample_rate, data, idx, snapshot, carrier,
                   modulator, sample, nframes, snapBegin, envBegin, voiceSteps, scen,
                   obsvars, locks,
                   evars>>

\* Mutant of AuWrite: only the frame's first channel gets the sample.
AuWrite_FirstChannelOnly ==
    /\ auPc = "write"
    /\ ch < channels
    /\ IF idx < Len(data)
         THEN /\ data' = IF ch = 0
                           THEN [data EXCEPT ![idx + 1] = [v |-> out, n |-> @.n + 1]]
                           ELSE [data EXCEPT ![idx + 1] = [v |-> 0, n |-> @.n + 1]]
              /\ auPc' = auPc
         ELSE /\ data' = data
              /\ auPc' = "panic"
    /\ idx' = idx + 1
    /\ ch' = ch + 1
    /\ UNCHANGED <<shared, lock, uivars, channels, sample_rate, snapshot, carrier,
                   modulator, sample, env_level, out, nframes, snapBegin, envBegin,
                   envUsed, voiceSteps, scen, scenT, obsvars, locks,
                   evars>>

\* Mutant of AuWrite: idx is not advanced.
AuWrite_NoAdvance ==
    /\ auPc = "write"
    /\ ch < channels
    /\ IF idx < Len(data)
         THEN /\ data' = [data EXCEPT ![idx + 1] = [v |-> out, n |-> @.n + 1]]
              /\ auPc' = auPc
         ELSE /\ data' = data
              /\ auPc' = "panic"
    /\ idx' = idx
    /\ ch' = ch + 1
    /\ UNCHANGED <<shared, lock, uivars, channels, sample_rate, snapshot, carrier,
                   modulator, sample, env_level, out, nframes, snapBegin, envBegin,
                   envUsed, voiceSteps, scen, scenT, obsvars, locks,
                   evars>>

\* for ch in 0..channels: data[idx] = out; idx += 1 (an index past the buffer panics).
AuWrite ==
    /\ auPc = "write"
    /\ ch < channels
    /\ IF idx < Len(data)
         THEN /\ data' = [data EXCEPT ![idx + 1] = [v |-> out, n |-> @.n + 1]]
              /\ auPc' = auPc
         ELSE /\ data' = data
              /\ auPc' = "panic"
    /\ idx' = idx + 1
    /\ ch' = ch + 1
    /\ UNCHANGED <<shared, lock, uivars, channels, sample_rate, snapshot, carrier,
                   modulator, sample, env_level, out, nframes, snapBegin, envBegin,
                   envUsed, voiceSteps, scen, scenT, obsvars, locks,
                   evars>>

\* Mutant of AuEndFrame: the guard s2 outlives the loop body.
AuEndFrame_KeepLock ==
    /\ auPc = "write"
    /\ ~(ch < channels)
    /\ lock' = lock
    /\ nframes' = nframes + 1
    /\ auPc' = "loop"
    /\ UNCHANGED <<shared, uivars, channels, sample_rate, data, idx, ch, snapshot, carrier,
                   modulator, sample, env_level, out, snapBegin, envBegin, envUsed,
                   voiceSteps, scen, scenT, obsvars, locks,
                   evars>>

\* The channel loop is over and the loop body ends: the guard s2 is dropped.
AuEndFrame ==
    /\ auPc = "write"
    /\ ~(ch < channels)
    /\ lock' = "free"
    /\ nframes' = nframes + 1
    /\ auPc' = "loop"
    /\ UNCHANGED <<shared, uivars, channels, sample_rate, data, idx, ch, snapshot, carrier,
                   modulator, sample, env_level, out, snapBegin, envBegin, envUsed,
                   voiceSteps, scen, scenT, obsvars, locks,
                   evars>>

Init == PInit /\ ERest

Next ==
    \/ UiRead \/ UiLock \/ UiApply
    \/ AuCallback \/ AuReturn \/ AuSnapLock \/ AuSnapshot \/ AuVoice
    \/ AuEnvLock \/ AuEnvelope \/ AuWrite \/ AuEndFrame

Spec == Init /\ [][Next]_vars

-----------------------------------------------------------------------------
(* SpecFair: the two threads under fair scheduling *)

\* One line of each kind the dispatch tells apart: no arm, quit, a numeric
\* arm, on and off.
LockLines == {<<"zz">>, <<"q">>, <<"a", "2">>, <<"on">>, <<"off">>}

\* UiRead on the lines of LockLines.
UiReadLock == UiRead /\ line' \in LockLines

\* The audio thread's steps that wait for nothing.
AuRun == AuReturn \/ AuSnapshot \/ AuVoice \/ AuEnvelope \/ AuWrite \/ AuEndFrame

NextFair ==
    \/ UiReadLock \/ UiLock \/ UiApply
    \/ AuCallback \/ AuSnapLock \/ AuEnvLock \/ AuRun

\* A running thread keeps running (weak fairness), and a thread waiting for
\* the mutex gets it if it is free again and again (strong fairness); when a
\* line arrives and when the host calls back is left open.
SpecFair ==
    /\ Init /\ [][NextFair]_vars
    /\ WF_vars(UiApply) /\ SF_vars(UiLock)
    /\ WF_vars(AuRun) /\ SF_vars(AuSnapLock) /\ SF_vars(AuEnvLock)

----------------------------------------------------------------------------
(* SpecAdsr: one Adsr value, any sequence of calls *)

\* Constructor arguments and time steps tried (0 is raised to the floor by Adsr::new).
TimeVals == {0, F(1, 10), F(3, 10)}
SustainVals == {0, F(8, 10), Unit}
DtVals == {F(1, 100), F(1, 10), F(35, 100)}

\* The program's variables, at rest while the envelope alone is exercised.
PRest ==
    /\ shared = [carrier_freq |-> 0, mod_ratio |-> 0, mod_index |-> 0, amp |-> 0,
                 adsr |-> AdsrNew(0, 0, 0, 0), gate |-> FALSE]
    /\ lock = "free" /\ uiPc = "done" /\ line = <<>> /\ ncmds = 0
    /\ channels = 1 /\ sample_rate = Unit
    /\ auPc = "idle" /\ data = <<>> /\ idx = 0 /\ ch = 0
    /\ snapshot = shared
    /\ carrier = [phase |-> 0, phase_inc |-> 0]
    /\ modulator = [phase |-> 0, phase_inc |-> 0]
    /\ sample = 0 /\ env_level = 0 /\ out = 0 /\ nframes = 0
    /\ snapBegin = shared /\ envBegin = shared.adsr /\ envUsed = shared.adsr
    /\ voiceSteps = 0
    /\ scen = 0 /\ scenT = 0
    /\ pure = TRUE /\ ref = carrier /\ refSample = 0 /\ carrier0 = carrier /\ modSample = 0
    /\ locks = 0

EInit ==
    /\ \E a \in TimeVals, d \in TimeVals, s \in SustainVals, r \in TimeVals :
          env = AdsrNew(a, d, s, r)
    /\ op = "new"
    /\ prev = env
    /\ ret = 0
    /\ lastDt = 0
    /\ relT = -1
    /\ relBig = FALSE

\* env.note_on()
NoteOnCall ==
    /\ env' = NoteOn(env)
    /\ op' = "note_on"
    /\ prev' = env
    /\ relT' = -1
    /\ relBig' = FALSE
    /\ UNCHANGED <<ret, lastDt, pvars>>

\* env.note_off()
NoteOffCall ==
    /\ env' = NoteOff(env)
    /\ op' = "note_off"
    /\ prev' = env
    /\ IF env.state # "Idle"
         THEN relT' = 0 /\ relBig' = FALSE
         ELSE UNCHANGED <<relT, relBig>>
    /\ UNCHANGED <<ret, lastDt, pvars>>

\* env.next(dt)
NextCall ==
    \E dt \in DtVals :
        /\ env' = AdsrNext(env, dt)
        /\ ret' = env'.level
        /\ op' = "next"
        /\ prev' = env
        /\ lastDt' = dt
        /\ IF relT >= 0
             THEN /\ relT' = Min(relT + dt, env.release)
                  /\ relBig' = (relBig \/ dt >= env.release)
             ELSE UNCHANGED <<relT, relBig>>
        /\ UNCHANGED pvars

ENext == NoteOnCall \/ NoteOffCall \/ NextCall

InitAdsr == EInit /\ PRest

SpecAdsr == InitAdsr /\ [][ENext]_vars

----------------------------------------------------------------------------
(* Claims about the envelope, checked under SpecAdsr *)

InUnit(x) == FGe(x, 0) /\ FLe(x, Unit)

C3_ReleaseWithinReleaseTime ==
    (relT >= 0 /\ relT >= env.release) => (env.state = "Idle" /\ env.level = 0)

\* C3 amended: after a note_off on a non-Idle envelope and next(dt) calls of
\* which one has dt >= release (no note_on in between), the envelope is Idle at
\* level 0.
C3_ReleaseAfterOneLongStep ==
    (relT >= 0 /\ relBig) => (env.state = "Idle" /\ env.level = 0)

\* C3's case: a sounding envelope in Release was stepped by dt >= release.
C3_Witness ==
    /\ relT >= 0 /\ relBig /\ op = "next"
    /\ prev.state = "Release" /\ prev.level > 0 /\ lastDt >= prev.release
    /\ env.state = "Idle"

Edges == {<<"Attack", "Decay">>, <<"Decay", "Sustain">>, <<"Release", "Idle">>}

\* C5: next(dt) changes the state only Attack->Decay, Decay->Sustain or
\* Release->Idle (never from Idle or Sustain); note_on only moves to Attack;
\* note_off only moves a non-Idle state to Release.
C5_DefinedEdges ==
    /\ op = "next" => (env.state = prev.state \/ <<prev.state, env.state>> \in Edges)
    /\ op = "note_on" => env.state = "Attack"
    /\ op = "note_off" =>
          (env.state = prev.state \/ (prev.state # "Idle" /\ env.state = "Release"))

\* C5's case: a next(dt) took the envelope from Decay to Sustain.
C5_Witness == op = "next" /\ prev.state = "Decay" /\ env.state = "Sustain"

\* C6: note_on in any state sets the state to Attack and leaves the level and
\* the attack, decay, sustain and release parameters as they were.
C6_HardRetrigger ==
    op = "note_on" =>
        /\ env.state = "Attack"
        /\ env.level = prev.level
        /\ env.attack = prev.attack /\ env.decay = prev.decay
        /\ env.sustain = prev.sustain /\ env.release = prev.release

\* C6's case: note_on on an envelope in Decay or Sustain at a positive level.
C6_Witness ==
    /\ op = "note_on" /\ prev.state \in {"Decay", "Sustain"}
    /\ prev.level > 0 /\ env.level = prev.level /\ env.state = "Attack"

\* C7: note_off moves every state but Idle to Release, and changes nothing when
\* the state is Idle.
C7_NoteOff ==
    op = "note_off" =>
        IF prev.state = "Idle" THEN env = prev
        ELSE env = [prev EXCEPT !.state = "Release"]

\* C7's case: note_off on a sustained envelope.
C7_Witness == op = "note_off" /\ prev.state = "Sustain" /\ env.state = "Release"

----------------------------------------------------------------------------
(* Claims about the running program, checked under Spec *)

\* C1: after n 440, on, frames covering at least the attack time, off, and
\* frames covering at least the release time, the shared envelope is Idle at
\* level 0 and the shared carrier_freq is 440.
C1_ScenarioEndsIdle ==
    (scen = 3 /\ scenT >= shared.adsr.release) =>
        /\ shared.adsr.state = "Idle"
        /\ shared.adsr.level = 0
        /\ shared.carrier_freq = F(440, 1)

\* The parameters a frame takes from its snapshot.
Params(s) == <<s.carrier_freq, s.mod_ratio, s.mod_index, s.amp, s.gate>>

\* The positions of a frame at which its snapshot has been taken.
AfterSnapshot == {"voice", "envlock", "env", "write"}

\* C4 as stated: everything that determines a frame's output (the parameters and
\* the envelope's state and level) is read from one state of the shared
\* structure, the one the frame's snapshot lock found.
C4_OneStatePerFrame ==
    auPc = "write" =>
        /\ Params(snapshot) = Params(snapBegin)
        /\ envUsed.state = snapBegin.adsr.state
        /\ envUsed.level = snapBegin.adsr.level

\* C4 amended: the parameters (carrier_freq, mod_ratio, mod_index, amplitude,
\* gate) a frame uses are read together from the state of the shared structure
\* that the frame's snapshot lock found, which holds every control write
\* completed before; the envelope's state and level are read together from the
\* state that the frame's second lock found, which may be a later one.
C4_SnapshotThenEnvelope ==
    /\ auPc \in AfterSnapshot => Params(snapshot) = Params(snapBegin)
    /\ auPc = "write" => envUsed = envBegin

\* C4's case: a control write completed between a frame's two locks, and the
\* frame's parameters are those of before it, its envelope that of after it.
C4_Witness ==
    /\ auPc = "write"
    /\ Params(snapshot) = Params(snapBegin)
    /\ snapBegin.adsr.state = "Idle" /\ envUsed.state = "Attack"
    /\ snapshot.gate = FALSE

\* C8: in every reachable state carrier_freq >= 1, mod_ratio >= 0,
\* mod_index >= 0 and 0 <= amplitude <= 1.
C8_ParamRanges ==
    /\ FGe(shared.carrier_freq, Unit)
    /\ FGe(shared.mod_ratio, 0)
    /\ FGe(shared.mod_index, 0)
    /\ FGe(shared.amp, 0) /\ FLe(shared.amp, Unit)

\* A line the control loop is to ignore: empty, an unknown command, or a numeric
\* command whose argument is missing or is not a number.
Malformed(l) ==
    \/ Len(l) = 0
    \/ l[1] \notin NumericCmds \cup {"on", "off", "q", "quit"}
    \/ l[1] \in NumericCmds /\ (Len(l) < 2 \/ l[2] \notin {"440", "0", "-1", "2", "NaN"})

\* C9: reading a malformed line leaves the shared state and the lock as they
\* were and the loop ready to read the next line; and no write to the shared
\* state is made for a malformed line.
C9_MalformedIgnored ==
    [][ /\ (ncmds' # ncmds /\ Malformed(line')) =>
              (shared' = shared /\ lock' = lock /\ uiPc' = "read")
        /\ (uiPc \in {"lock", "apply"} /\ Malformed(line)) => FALSE ]_vars

\* C9's case: a line with an argument that is no number was read after a command
\* that took effect, and the loop is reading again.
C9_Witness ==
    /\ line = <<"n", "abc">> /\ uiPc = "read" /\ ncmds >= 2
    /\ shared.gate /\ shared.carrier_freq = InitialState.carrier_freq

\* The frames of the buffer, counted from 0.
Frames == 0 .. (Len(data) \div channels) - 1

\* C10: when the callback has returned, the channel slots of each frame hold the
\* same value, and one voice step was made per frame.
C10_ChannelDuplication ==
    (auPc = "idle" /\ Len(data) > 0) =>
        /\ \A f \in Frames : \A c \in 0 .. channels - 1 :
              data[f * channels + c + 1].v = data[f * channels + 1].v
        /\ voiceSteps = Len(data) \div channels

\* C10's case: a returned two-channel buffer of two frames, the second frame's
\* sample not zero.
C10_Witness ==
    /\ auPc = "idle" /\ channels = 2 /\ Len(data) = 4
    /\ data[3].v # 0 /\ data[3].v # Stale /\ data[4].v = data[3].v

\* The callback's variant: 0 when it has returned; otherwise the slots left
\* after the current frame, weighted, plus the steps left in the frame.
StepsLeftInFrame ==
    CASE auPc = "snap"    -> 5 + channels
      [] auPc = "voice"   -> 4 + channels
      [] auPc = "envlock" -> 3 + channels
      [] auPc = "env"     -> 2 + channels
      [] auPc = "write"   -> 1 + (channels - ch)
      [] OTHER            -> 0

Variant ==
    CASE auPc = "idle" -> 0
      [] auPc = "loop" -> 1 + 8 * (Len(data) - idx)
      [] auPc = "write" -> 1 + 8 * (Len(data) - (idx - ch) - channels) + StepsLeftInFrame
      [] OTHER -> 1 + 8 * (Len(data) - idx - channels) + StepsLeftInFrame

\* A step of the audio thread inside a callback.
CallbackStep == auPc # "idle" /\ (auPc' # auPc \/ idx' # idx)

\* C11: for a buffer of frames * channels slots the callback never writes
\* outside the buffer, writes no slot twice, has written exactly the slots
\* below idx, has written every slot once when it returns, and each of its
\* steps lowers a variant that is bounded below (so it makes finitely many).
C11_BufferPopulated ==
    [][ /\ auPc # "panic"
        /\ idx <= Len(data)
        /\ \A i \in 1 .. Len(data) : data[i].n = (IF i <= idx THEN 1 ELSE 0)
        /\ (auPc = "idle" => idx = Len(data))
        /\ Variant >= 0
        /\ (CallbackStep => Variant' < Variant) ]_vars

\* C11's case: a returned two-channel buffer of two frames, each slot written once.
C11_Witness ==
    /\ auPc = "idle" /\ channels = 2 /\ Len(data) = 4 /\ idx = 4
    /\ \A i \in 1 .. 4 : data[i].n = 1

\* A phase in [0, TAU).
Wrapped(p) == FGe(p, 0) /\ FLt(p, TAU)

\* C12: after every SineOsc::next of the render path the stored phase of the
\* oscillator lies in [0, TAU).
C12_PhaseWrapped ==
    auPc \in {"envlock", "env", "write"} =>
        (Wrapped(carrier.phase) /\ Wrapped(modulator.phase))

\* C13: while every frame is rendered with mod_index = 0 (whatever mod_ratio
\* is), the carrier is, frame for frame, the unmodulated oscillator ref set to
\* carrier_freq, the carrier's samples are ref's, and with amplitude 1.0 and
\* envelope level 1.0 the rendered sample is ref's sample.
C13_NoModulation ==
    pure =>
        /\ carrier = ref
        /\ sample = refSample
        /\ (auPc = "write" /\ snapshot.amp = Unit /\ env_level = Unit) => out = refSample

\* C13's case: the second of two frames rendered with mod_index 0, amplitude
\* 1.0 and envelope level 1.0, the modulator running and the sample not zero.
C13_Witness ==
    /\ pure /\ nframes >= 1 /\ auPc = "write"
    /\ snapshot.mod_index = 0 /\ snapshot.mod_ratio = F(2, 1)
    /\ snapshot.carrier_freq = F(220, 1)
    /\ snapshot.amp = Unit /\ env_level = Unit
    /\ modulator.phase # 0
    /\ out = refSample /\ out # 0

\* C14: when a frame has stepped the envelope, the shared envelope is
\* Adsr::next(dt) of the shared envelope the frame locked, and env_level is its
\* level.
C14_SharedEnvelopeStepped ==
    auPc = "write" =>
        /\ shared.adsr = AdsrNext(envBegin, Dt)
        /\ env_level = shared.adsr.level

\* The envelope's time and sustain parameters.
AdsrParams(a) == <<a.attack, a.decay, a.sustain, a.release>>

\* C15: no step of the render path changes the shared carrier_freq,
\* mod_ratio, mod_index, amplitude or gate, nor the envelope's attack, decay,
\* sustain and release; only the envelope's state and level may change.
C15_RenderFrameCondition ==
    [][ (uivars' = uivars) =>
            /\ Params(shared') = Params(shared)
            /\ AdsrParams(shared'.adsr) = AdsrParams(shared.adsr) ]_vars

\* A frame has written the envelope back after a control command changed a
\* parameter between the frame's snapshot and its envelope block.
C15_Witness ==
    /\ auPc = "write"
    /\ Params(snapshot) # Params(shared)

\* The nominal phase increment carrier_freq * TAU / sample_rate of the frame.
NominalInc == FDiv(FMul(snapshot.carrier_freq, TAU), sample_rate)

\* The instantaneous phase increment of the frame, deviation included.
InstInc ==
    FDiv(FMul(FAdd(snapshot.carrier_freq, FMul(snapshot.mod_index, modSample)), TAU),
         sample_rate)

\* The frame's oscillator computation is over.
AfterVoice == {"envlock", "env", "write"}

\* C16 as stated: after a frame the stored increment is the nominal one and
\* the stored phase is the one a nominal advance gives, modulo 2 pi (frame by
\* frame, which is what k nominal advances after k frames comes to).
C16_PhaseIsNominal ==
    auPc \in AfterVoice =>
        /\ carrier.phase_inc = NominalInc
        /\ carrier.phase % TAU = FAdd(carrier0.phase, NominalInc) % TAU

\* C16 amended: after a frame the stored increment is the nominal one, so a
\* frame's deviation never enters a later frame's increment; the stored phase
\* has advanced by the instantaneous increment, deviation included, and the
\* next frame starts from that phase.
C16_IncrementRestored ==
    auPc \in AfterVoice =>
        /\ carrier.phase_inc = NominalInc
        /\ carrier.phase =
               OscNext([phase |-> carrier0.phase, phase_inc |-> InstInc]).phase

\* A frame whose deviation was not zero: the stored phase is off the nominal
\* one while the stored increment is nominal.
C16_Witness ==
    /\ auPc \in AfterVoice
    /\ InstInc # NominalInc
    /\ carrier.phase % TAU # FAdd(carrier0.phase, NominalInc) % TAU
    /\ carrier.phase_inc = NominalInc

\* C17 as stated: the audio thread holds the lock only while it copies the
\* snapshot, and locks the shared state at most once per frame.
C17_LockOnlyForSnapshot ==
    /\ (lock = "audio" => auPc = "snap")
    /\ locks <= 1

\* C17 amended: the snapshot's lock is released before the oscillator
\* computation and none is held during it; a second lock is taken for the
\* envelope block and held while out is computed and written to the frame's
\* channel slots, until the frame ends; a frame locks exactly twice.
C17_LockScopes ==
    /\ (auPc \in {"voice", "envlock"} => lock # "audio")
    /\ (lock = "audio" <=> auPc \in {"snap", "env", "write"})
    /\ locks <= 2
    /\ (auPc = "snap" => locks = 1)
    /\ (auPc \in {"env", "write"} => locks = 2)

\* The frame's second lock is held while a channel slot has been written and
\* the control thread waits for the lock.
C17_Witness ==
    /\ auPc = "write"
    /\ ch > 0
    /\ lock = "audio"
    /\ locks = 2
    /\ uiPc = "lock"

\* The envelope states of a held note.
GateOnStates == {"Attack", "Decay", "Sustain"}

\* C18: whenever no critical section is running, gate is true exactly when
\* the shared envelope is in Attack, Decay or Sustain.
C18_GateAgreesWithEnvelope ==
    lock = "free" => (shared.gate <=> shared.adsr.state \in GateOnStates)

\* After on, off and a render frame in between or after, the gate is false
\* and the shared envelope is in Release.
C18_Witness ==
    /\ lock = "free"
    /\ nframes >= 1
    /\ line = <<"off">>
    /\ uiPc = "read"
    /\ ~shared.gate
    /\ shared.adsr.state = "Release"

\* The control thread completes the command cmd in this step.
Completes(cmd) == uiPc = "apply" /\ line = <<cmd>> /\ uiPc' = "read"

\* C19: the envelope block reads and writes back the shared envelope inside
\* one critical section, so on leaves the shared envelope in Attack, off
\* leaves a non-Idle one in Release, and no step of the render path takes the
\* shared envelope state anywhere but along an edge of Adsr::next.
C19_NoLostGateEvent ==
    [][ /\ (auPc = "env" => lock = "audio" /\ envBegin = shared.adsr)
        /\ (Completes("on") => shared'.adsr.state = "Attack")
        /\ (Completes("off") /\ shared.adsr.state # "Idle"
                => shared'.adsr.state = "Release")
        /\ (uivars' = uivars =>
                \/ shared'.adsr.state = shared.adsr.state
                \/ <<shared.adsr.state, shared'.adsr.state>> \in Edges) ]_vars

\* An on completed between a frame's snapshot and its envelope block, and
\* the shared envelope is still in Attack after the write-back.
C19_Witness ==
    /\ auPc = "write"
    /\ snapshot.adsr.state = "Idle"
    /\ ~snapshot.gate
    /\ shared.gate
    /\ envBegin.state = "Attack"
    /\ shared.adsr.state = "Attack"

\* The steps a thread takes while it holds the lock.
UiHolderStep == UiApply
AuHolderStep == AuSnapshot \/ AuEnvelope \/ AuWrite \/ AuEndFrame

\* No thread locks the mutex it holds; whoever holds the lock is at a step
\* that waits for nothing and can take it; a thread that wants a free lock
\* can take it; a callback between its locks can go on.
LockDiscipline ==
    /\ (uiPc = "lock" => lock # "ui")
    /\ (auPc \in {"loop", "envlock"} => lock # "audio")
    /\ (lock = "ui" => uiPc = "apply" /\ ENABLED UiHolderStep)
    /\ (lock = "audio" => auPc \in {"snap", "env", "write"} /\ ENABLED AuHolderStep)
    /\ (lock = "free" /\ uiPc = "lock" => ENABLED UiLock)
    /\ (lock = "free" /\ auPc = "loop" => ENABLED (AuSnapLock \/ AuReturn))
    /\ (lock = "free" /\ auPc = "envlock" => ENABLED AuEnvLock)
    /\ (auPc = "voice" => ENABLED AuVoice)

\* C20: neither thread ever locks the mutex while it holds it, a lock holder
\* never waits for the other thread before it releases, and under fair
\* scheduling every started command and every started callback completes.
C20_DeadlockFree ==
    /\ []LockDiscipline
    /\ (uiPc \in {"lock", "apply"}) ~> (uiPc = "read")
    /\ (auPc # "idle") ~> (auPc = "idle")

\* The callback, between its two locks in a second or later frame, waits for
\* the control thread, which holds the lock for an on.
C20_Witness ==
    /\ lock = "ui"
    /\ auPc = "envlock"
    /\ idx > 0
    /\ line = <<"on">>
====
